---- MODULE Spec2Model ----
(***************************************************************************)
(* Checklist execution in the cleanTrack front end: the checklist detail   *)
(* page (room sequencer, photo gate, item submission, start, complete),    *)
(* the checklists list page, the today-tasks page and the review page,     *)
(* running against the backend API they call.  Every handler is an async   *)
(* function: its requests are in flight while other handlers run, and the  *)
(* responses are applied in the order they arrive.                         *)
(***************************************************************************)
EXTENDS Integers, Sequences, FiniteSets, TLC

\* ---------------------------------------------------------------- bounds
MaxInFlight == 2      \* handlers whose requests are in flight at one time
MaxStaged == 1        \* photos an item's form may hold staged
MaxPhotoCount == 1    \* largest photos_required_count of a room pivot

RoomIds == {1, 2}
ItemIds == {1, 2}
Notes == {"", "n1"}
Roles == {"housekeeper", "admin"}
Pages == {"detail", "list", "today", "review"}
Statuses == {"pending", "in_progress", "completed", "reviewed"}

null == 0             \* currentRoomId / updating: no id (ids are positive)

VARIABLES
  srvStatus,          \* Checklist.status as persisted by the backend
  srvItems,           \* Checklist.items as persisted (sequence of items)
  srvRating,          \* Checklist.rating as persisted (0: unset)
  rooms,              \* property.rooms, in order, with their pivots
  role,               \* user.role of the signed-in user
  page,               \* the page that is mounted
  checklist,          \* the page's copy of the checklist (NoChecklist: null)
  loading,
  error,
  updating,
  currentRoomId,
  roomPhotoProgress,
  selectedPhotosMap,  \* item id -> number of staged files
  itemNotesMap,       \* item id -> staged notes
  submitting,         \* review page: a review request is in flight
  selectedRating,     \* review page: the rating picked (0: none)
  calls,              \* the async handlers that are running
  stagedFiles,        \* item id -> the staged files themselves, in order
  photoPreviewsMap,   \* item id -> the previews, each named by the file it shows
  readers,            \* the FileReaders that have not finished
  editing,            \* room dialog: the room being edited (0: closed)
  requiresPhoto,      \* room dialog: the switch
  photosRequiredCount \* room dialog: the count (0: undefined)

vars == <<srvStatus, srvItems, srvRating, rooms, role, page, checklist, loading,
          error, updating, currentRoomId, roomPhotoProgress, selectedPhotosMap,
          itemNotesMap, submitting, selectedRating, calls, stagedFiles,
          photoPreviewsMap, readers, editing, requiresPhoto, photosRequiredCount>>

srvVars == <<srvStatus, srvItems, srvRating, rooms>>
photoVars == <<stagedFiles, photoPreviewsMap, readers>>
dialogVars == <<editing, requiresPhoto, photosRequiredCount>>
formVars == <<selectedPhotosMap, itemNotesMap, photoVars, dialogVars>>
reviewVars == <<submitting, selectedRating>>
roomVars == <<currentRoomId, roomPhotoProgress>>

\* ------------------------------------------------------------ data shapes
NoChecklist == [status |-> "none", items |-> <<>>, rating |-> 0, rooms |-> <<>>]

NoError == [message |-> "none", extra |-> FALSE, distance |-> 0, allowed |-> 0]

Err(m) == [message |-> m, extra |-> FALSE, distance |-> 0, allowed |-> 0]

NoBody == [distance_tenths |-> -1, allowed_meters |-> -1]

IdleCall == [op |-> "idle", pc |-> "idle", pg |-> "none", live |-> FALSE,
             item |-> null, notes |-> "", photos |-> 0, coords |-> FALSE, rating |-> 0,
             data |-> NoChecklist, message |-> "none", body |-> NoBody]

Slots == 1..MaxInFlight

FreeSlots == {s \in Slots : calls[s].op = "idle"}

\* the slot a new handler takes
NewSlot == CHOOSE s \in FreeSlots : \A t \in FreeSlots : s <= t

Range(f) == {f[x] : x \in DOMAIN f}

\* the item with id i of an item list (items.find(it => it.id === i))
ItemOf(items, i) == CHOOSE it \in Range(items) : it.id = i

HasItem(items, i) == \E it \in Range(items) : it.id = i

\* --------------------------------------------------------- room sequencer
\* FirstPending without the completed test: the first room that has any item
FirstPendingAnyItem(orderedRooms, items) ==
  LET hit == {k \in DOMAIN orderedRooms :
                \E it \in Range(items) : it.room_id = orderedRooms[k].id}
  IN IF hit = {} THEN 0 ELSE CHOOSE k \in hit : \A j \in hit : k <= j

\* orderedRooms.find(r => items.some(it => it.room_id === r.id && !it.completed)):
\* the index of the room found, 0 when find returns undefined
FirstPending(orderedRooms, items) ==
  LET hit == {k \in DOMAIN orderedRooms :
                \E it \in Range(items) :
                  it.room_id = orderedRooms[k].id /\ ~it.completed}
  IN IF hit = {} THEN 0 ELSE CHOOSE k \in hit : \A j \in hit : k <= j

\* firstPending?.id || orderedRooms[0]?.id || null
CurrentRoom(orderedRooms, items) ==
  LET k == FirstPending(orderedRooms, items)
  IN IF k # 0 /\ orderedRooms[k].id # 0 THEN orderedRooms[k].id
     ELSE IF Len(orderedRooms) > 0 /\ orderedRooms[1].id # 0 THEN orderedRooms[1].id
     ELSE null

\* RoomPhotos counting the photos of one item only, the first of the room
RECURSIVE RoomPhotosOfFirstItem(_, _)
RoomPhotosOfFirstItem(items, id) ==
  IF items = <<>> THEN 0
  ELSE IF Head(items).room_id = id THEN Head(items).photos
  ELSE RoomPhotosOfFirstItem(Tail(items), id)

\* items.filter(it => it.room_id === id).flatMap(it => it.photos || []).length
RECURSIVE RoomPhotos(_, _)
RoomPhotos(items, id) ==
  IF items = <<>> THEN 0
  ELSE (IF Head(items).room_id = id THEN Head(items).photos ELSE 0)
       + RoomPhotos(Tail(items), id)

\* Math.max(0, Number(pivot?.photos_required_count || 0))
RequiredOf(room) ==
  IF room.photos_required_count > 0 THEN room.photos_required_count ELSE 0

\* fetchChecklist: the progress of current = firstPending || orderedRooms[0]
ProgressOnFetch(orderedRooms, items) ==
  LET k == FirstPending(orderedRooms, items)
      c == IF k # 0 THEN k ELSE IF Len(orderedRooms) > 0 THEN 1 ELSE 0
  IN IF c # 0
     THEN [required |-> RequiredOf(orderedRooms[c]),
           total |-> RoomPhotos(items, orderedRooms[c].id)]
     ELSE [required |-> 0, total |-> 0]

\* handleSubmit: the progress of orderedRooms.find(r => r.id === newCurrentId)
ProgressOnSubmit(orderedRooms, items, newCurrentId) ==
  IF newCurrentId # null
  THEN LET hit == {k \in DOMAIN orderedRooms : orderedRooms[k].id = newCurrentId}
           k == CHOOSE j \in hit : \A l \in hit : j <= l
       IN [required |-> IF hit = {} THEN 0 ELSE RequiredOf(orderedRooms[k]),
           total |-> RoomPhotos(items, newCurrentId)]
  ELSE [required |-> 0, total |-> 0]

\* ------------------------------------------------ derived values of a render
\* checklist?.items?.filter(item => item.completed).length || 0
completedTasks == Cardinality({k \in DOMAIN checklist.items : checklist.items[k].completed})

totalTasks == Len(checklist.items)

canStart == checklist.status = "pending"

\* canComplete without the count of completed items
canCompleteAnyProgress == checklist.status = "in_progress"

canComplete == checklist.status = "in_progress" /\ completedTasks = totalTasks

canUpdate == checklist.status = "in_progress" /\ role = "housekeeper"

\* the detail page renders its main view
DetailShown == page = "detail" /\ ~loading /\ checklist # NoChecklist

\* Displayed without the fallback for no current room
DisplayedCurrentOnly(it) == it.room_id = currentRoomId

\* checklist.items.filter(it => !currentRoomId || it.room_id === currentRoomId)
Displayed(it) == currentRoomId = null \/ it.room_id = currentRoomId

\* the Task Update Form of item i is rendered
FormShown(i) ==
  /\ DetailShown
  /\ HasItem(checklist.items, i)
  /\ Displayed(ItemOf(checklist.items, i))
  /\ canUpdate
  /\ ~ItemOf(checklist.items, i).completed

\* PhotoGateBlocks with <= for <: one photo more than required is asked for
PhotoGateBlocksOffByOne(i) ==
  /\ roomPhotoProgress.required > 0
  /\ roomPhotoProgress.total + selectedPhotosMap[i] <= roomPhotoProgress.required

\* the photo part of the Submit button's disabled condition
PhotoGateBlocks(i) ==
  /\ roomPhotoProgress.required > 0
  /\ roomPhotoProgress.total + selectedPhotosMap[i] < roomPhotoProgress.required

\* disabled={updating === item.id || (required > 0 && total + staged < required)}
SubmitDisabled(i) == updating = i \/ PhotoGateBlocks(i)

\* ------------------------------------------------------------- the backend
\* what GET /checklists/{id} (and the list endpoints) return
Snapshot == [status |-> srvStatus, items |-> srvItems, rating |-> srvRating,
             rooms |-> rooms]

\* the pivot of the room with this id (no pivot: no requirement)
PivotOf(id) ==
  LET hit == {k \in DOMAIN rooms : rooms[k].id = id}
  IN IF hit = {} THEN [id |-> id, requires_photo |-> FALSE, photos_required_count |-> 0]
     ELSE rooms[CHOOSE k \in hit : TRUE]

\* Photo Requirement Gate as the engine states it
canSubmit(requires_photo, photos_required_count, persisted, staged) ==
  \/ ~requires_photo
  \/ photos_required_count = 0
  \/ persisted + staged >= photos_required_count

\* submitItem is legal
SrvSubmitLegal(i, photos) ==
  /\ srvStatus = "in_progress"
  /\ HasItem(srvItems, i)
  /\ ~ItemOf(srvItems, i).completed
  /\ LET r == PivotOf(ItemOf(srvItems, i).room_id)
     IN canSubmit(r.requires_photo, r.photos_required_count,
                  RoomPhotos(srvItems, r.id), photos)

\* the items after PUT /checklists/{id}/items/{i}
SrvSubmitted(i, notes, photos) ==
  [k \in DOMAIN srvItems |->
     IF srvItems[k].id = i
     THEN [srvItems[k] EXCEPT !.completed = TRUE,
                              !.notes = IF notes # "" THEN notes ELSE @,
                              !.photos = @ + photos]
     ELSE srvItems[k]]

SrvStartLegal == srvStatus = "pending"

SrvCompleteLegal ==
  /\ srvStatus = "in_progress"
  /\ \A k \in DOMAIN srvItems : srvItems[k].completed

SrvReviewLegal(rating) ==
  /\ srvStatus \in {"completed", "reviewed"}
  /\ rating \in 1..5

\* the geofence authority's out-of-range answers: distance in tenths of a
\* metre, allowed radius in metres, distance > allowed
OutOfRange == {[distance_tenths |-> 1200, allowed_meters |-> 50],
               [distance_tenths |-> 504, allowed_meters |-> 50]}

\* ------------------------------------------------------- handler bookkeeping
Call(op, pc, pg) == [IdleCall EXCEPT !.op = op, !.pc = pc, !.pg = pg, !.live = TRUE]

\* a handler whose page was unmounted: what is left of it once the page is gone
Orphaned(c) ==
  IF c.pc \in {"locating", "start", "update", "complete", "review"}
  THEN [c EXCEPT !.live = FALSE]
  ELSE IdleCall

\* the state of a page that has just been mounted
Mounted(p, cs) ==
  /\ page' = p
  /\ checklist' = NoChecklist
  /\ loading' = TRUE
  /\ error' = NoError
  /\ updating' = null
  /\ currentRoomId' = null
  /\ roomPhotoProgress' = [required |-> 0, total |-> 0]
  /\ selectedPhotosMap' = [i \in ItemIds |-> 0]
  /\ itemNotesMap' = [i \in ItemIds |-> ""]
  /\ stagedFiles' = [i \in ItemIds |-> <<>>]
  /\ photoPreviewsMap' = [i \in ItemIds |-> <<>>]
  /\ readers' = {}
  /\ UNCHANGED dialogVars
  /\ submitting' = FALSE
  /\ selectedRating' = 0
  /\ LET free == {s \in Slots : cs[s].op = "idle"}
     IN /\ free # {}
        /\ calls' = [cs EXCEPT ![CHOOSE s \in free : \A t \in free : s <= t] =
                                  Call("fetch", "get", p)]

\* ------------------------------------------------------------------- Init
\* the pivots a room may carry
Pivots == {[requires_photo |-> q, photos_required_count |-> c] :
             q \in BOOLEAN, c \in {0, MaxPhotoCount}}

RoomOf(id, p) == [id |-> id, requires_photo |-> p.requires_photo,
                  photos_required_count |-> p.photos_required_count]

\* the ordered room lists of a property: no room twice
RoomLists ==
  {<<>>}
  \cup {<<RoomOf(a, p)>> : a \in RoomIds, p \in Pivots}
  \cup {<<RoomOf(ab[1], p), RoomOf(ab[2], q)>> :
          ab \in {x \in RoomIds \X RoomIds : x[1] # x[2]}, p \in Pivots, q \in Pivots}

\* the item lists of a checklist: one item per id, in any order
ItemOrders == {o \in [1..Cardinality(ItemIds) -> ItemIds] :
                 \A i \in ItemIds : \E k \in DOMAIN o : o[k] = i}

\* a checklist as it is created: pending, every item incomplete
NewItems(roomOf) ==
  [k \in 1..Cardinality(ItemIds) |->
     [id |-> k, room_id |-> roomOf[k], completed |-> FALSE, notes |-> "", photos |-> 0]]

\* the detail page of a housekeeper, just mounted
InitPage ==
  /\ role = "housekeeper"
  /\ page = "detail"
  /\ checklist = NoChecklist
  /\ loading = TRUE
  /\ error = NoError
  /\ updating = null
  /\ currentRoomId = null
  /\ roomPhotoProgress = [required |-> 0, total |-> 0]
  /\ selectedPhotosMap = [i \in ItemIds |-> 0]
  /\ itemNotesMap = [i \in ItemIds |-> ""]
  /\ stagedFiles = [i \in ItemIds |-> <<>>]
  /\ photoPreviewsMap = [i \in ItemIds |-> <<>>]
  /\ readers = {}
  /\ editing = 0
  /\ requiresPhoto = FALSE
  /\ photosRequiredCount = 0
  /\ submitting = FALSE
  /\ selectedRating = 0
  /\ calls = [s \in Slots |-> IF s = 1 THEN Call("fetch", "get", "detail") ELSE IdleCall]

\* the room list of the property of the main specification: the first room
\* requires photos, the second does not
TwoRooms ==
  <<RoomOf(1, [requires_photo |-> TRUE, photos_required_count |-> MaxPhotoCount]),
    RoomOf(2, [requires_photo |-> FALSE, photos_required_count |-> 0])>>

\* the items of a checklist whose status is st
ItemLists(st, roomOfs, orders) ==
  {[k \in DOMAIN o |->
      [id |-> o[k], room_id |-> roomOf[o[k]], completed |-> done[o[k]],
       notes |-> "", photos |-> ph[o[k]]]] :
     roomOf \in roomOfs, o \in orders,
     done \in {d \in [ItemIds -> BOOLEAN] :
                 /\ st = "pending" => \A i \in ItemIds : ~d[i]
                 /\ st \in {"completed", "reviewed"} => \A i \in ItemIds : d[i]},
     ph \in [ItemIds -> 0..MaxStaged]}

\* an item carries photos only once it was submitted
Persisted(items) == \A k \in DOMAIN items : ~items[k].completed => items[k].photos = 0

\* a new checklist, both items in the first room or one item per room
Init ==
  /\ srvStatus = "pending"
  /\ \E roomOf \in {[i \in ItemIds |-> 1], [i \in ItemIds |-> i]} :
       srvItems = NewItems(roomOf)
  /\ srvRating = 0
  /\ rooms = TwoRooms
  /\ InitPage

\* a checklist in progress, of a property with any room list
InitRooms ==
  /\ srvStatus = "in_progress"
  /\ srvItems \in ItemLists(srvStatus, [ItemIds -> RoomIds], ItemOrders)
  /\ Persisted(srvItems)
  /\ srvRating = 0
  /\ rooms \in RoomLists
  /\ InitPage

\* a checklist at any point of its life
InitDirect ==
  /\ srvStatus \in Statuses
  /\ srvItems \in ItemLists(srvStatus, {[i \in ItemIds |-> 1], [i \in ItemIds |-> i]},
                            {[k \in 1..Cardinality(ItemIds) |-> k]})
  /\ Persisted(srvItems)
  /\ srvRating = IF srvStatus = "reviewed" THEN 4 ELSE 0
  /\ rooms = TwoRooms
  /\ InitPage

\* ------------------------------------------------------------- navigation
\* the user opens page p (the page mounts and fetches)
Navigate(p) ==
  /\ p = "review" => role # "housekeeper"
  /\ p = "today" => role = "housekeeper"
  /\ Mounted(p, [s \in Slots |-> Orphaned(calls[s])])
  /\ UNCHANGED <<srvVars, role>>

\* another user signs in and opens page p
SwitchUser(r, p) ==
  /\ r # role
  /\ p = "review" => r # "housekeeper"
  /\ p = "today" => r = "housekeeper"
  /\ role' = r
  /\ Mounted(p, [s \in Slots |-> Orphaned(calls[s])])
  /\ UNCHANGED srvVars

\* ------------------------------------------------------- backend: requests
\* GET of the checklist (or of the list that holds it) is answered
ServerGet(s) ==
  /\ calls[s].pc = "get"
  /\ calls' = [calls EXCEPT ![s] = [@ EXCEPT !.pc = "got", !.data = Snapshot]]
  /\ UNCHANGED <<srvVars, role, page, checklist, loading, error, updating,
                 roomVars, formVars, reviewVars>>

\* what remains of handler c after its request was answered with pc, message, body
Answered(c, pc, message, body) ==
  IF c.live THEN [c EXCEPT !.pc = pc, !.message = message, !.body = body]
  ELSE IdleCall

\* a request fails in transport: nothing is committed
RequestFails(s) ==
  /\ calls[s].pc \in {"get", "start", "update", "complete", "review"}
  /\ calls' = [calls EXCEPT ![s] = Answered(@, "failed", "request failed", NoBody)]
  /\ UNCHANGED <<srvVars, role, page, checklist, loading, error, updating,
                 roomVars, formVars, reviewVars>>

\* PUT /checklists/{id}/items/{item}
ServerUpdateItem(s) ==
  /\ calls[s].pc = "update"
  /\ IF SrvSubmitLegal(calls[s].item, calls[s].photos)
     THEN /\ srvItems' = SrvSubmitted(calls[s].item, calls[s].notes, calls[s].photos)
          /\ calls' = [calls EXCEPT ![s] = Answered(@, "get", "none", NoBody)]
     ELSE /\ srvItems' = srvItems
          /\ calls' = [calls EXCEPT ![s] = Answered(@, "failed", "request failed", NoBody)]
  /\ UNCHANGED <<srvStatus, srvRating, rooms, role, page, checklist, loading, error,
                 updating, roomVars, formVars, reviewVars>>

\* POST /checklists/{id}/start: the geofence authority is within range
ServerStartAccepts(s) ==
  /\ calls[s].pc = "start"
  /\ SrvStartLegal
  /\ srvStatus' = "in_progress"
  /\ calls' = [calls EXCEPT ![s] =
                 Answered(@, IF @.pg = "detail" THEN "get" ELSE "started", "none", NoBody)]
  /\ UNCHANGED <<srvItems, srvRating, rooms, role, page, checklist, loading, error,
                 updating, roomVars, formVars, reviewVars>>

\* POST /checklists/{id}/start: out of range, or not pending
ServerStartRejects(s) ==
  /\ calls[s].pc = "start"
  /\ \/ /\ SrvStartLegal
        /\ \E r \in OutOfRange :
             calls' = [calls EXCEPT ![s] = Answered(@, "failed", "out of range", r)]
     \/ /\ ~SrvStartLegal
        /\ calls' = [calls EXCEPT ![s] = Answered(@, "failed", "request failed", NoBody)]
  /\ UNCHANGED <<srvVars, role, page, checklist, loading, error, updating,
                 roomVars, formVars, reviewVars>>

\* POST /checklists/{id}/complete
ServerComplete(s) ==
  /\ calls[s].pc = "complete"
  /\ IF SrvCompleteLegal
     THEN /\ srvStatus' = "completed"
          /\ calls' = [calls EXCEPT ![s] =
                         Answered(@, IF @.pg = "detail" THEN "get" ELSE "started", "none", NoBody)]
     ELSE /\ srvStatus' = srvStatus
          /\ calls' = [calls EXCEPT ![s] = Answered(@, "failed", "request failed", NoBody)]
  /\ UNCHANGED <<srvItems, srvRating, rooms, role, page, checklist, loading, error,
                 updating, roomVars, formVars, reviewVars>>

\* POST /checklists/{id}/review
ServerReview(s) ==
  /\ calls[s].pc = "review"
  /\ IF SrvReviewLegal(calls[s].rating)
     THEN /\ srvStatus' = "reviewed"
          /\ srvRating' = calls[s].rating
          /\ calls' = [calls EXCEPT ![s] = Answered(@, "reviewed", "none", NoBody)]
     ELSE /\ UNCHANGED <<srvStatus, srvRating>>
          /\ calls' = [calls EXCEPT ![s] = Answered(@, "failed", "request failed", NoBody)]
  /\ UNCHANGED <<srvItems, rooms, role, page, checklist, loading, error,
                 updating, roomVars, formVars, reviewVars>>

\* ------------------------------------------------------ page: data arrives
Idle(s) == calls' = [calls EXCEPT ![s] = IdleCall]

\* Math.ceil of a positive number given in tenths
MathCeil(tenths) == (tenths + 9) \div 10

\* Math.round of a positive number given in tenths
MathRound(tenths) == (tenths + 5) \div 10

\* fetchChecklist / fetchChecklists / fetchTodayTasks: the response is applied
ApplyFetch(s) ==
  /\ calls[s].op = "fetch" /\ calls[s].pc = "got"
  /\ checklist' = calls[s].data
  /\ loading' = FALSE
  /\ IF calls[s].pg = "detail"
     THEN /\ currentRoomId' = CurrentRoom(calls[s].data.rooms, calls[s].data.items)
          /\ roomPhotoProgress' = ProgressOnFetch(calls[s].data.rooms, calls[s].data.items)
     ELSE UNCHANGED roomVars
  /\ IF calls[s].pg = "review" /\ calls[s].data.rating # 0
     THEN selectedRating' = calls[s].data.rating
     ELSE selectedRating' = selectedRating
  /\ Idle(s)
  /\ UNCHANGED <<srvVars, role, page, error, updating, formVars, submitting>>

\* Catch that shows err.message alone, as the list page's handler does
CatchMessageOnly(s) ==
  /\ calls[s].pc = "failed"
  /\ LET c == calls[s]
     IN /\ error' = Err(c.message)
        /\ loading' = IF c.op = "fetch" THEN FALSE ELSE loading
        /\ updating' = IF c.op = "submit" THEN null ELSE updating
        /\ submitting' = IF c.op = "review" THEN FALSE ELSE submitting
  /\ Idle(s)
  /\ UNCHANGED <<srvVars, role, page, checklist, roomVars, formVars, selectedRating>>

\* Catch that sends the failed item update once more instead of giving up
CatchRetries(s) ==
  IF calls[s].pc = "failed" /\ calls[s].op = "submit"
  THEN /\ calls' = [calls EXCEPT ![s] = [@ EXCEPT !.pc = "update", !.message = "none"]]
       /\ UNCHANGED <<srvVars, role, page, checklist, loading, error, updating,
                      roomVars, formVars, reviewVars>>
  ELSE CatchMessageOnly(s)

\* Catch that also resets the form of the item whose submission failed
CatchClearsForm(s) ==
  /\ calls[s].pc = "failed"
  /\ LET c == calls[s]
     IN /\ error' = Err(c.message)
        /\ loading' = IF c.op = "fetch" THEN FALSE ELSE loading
        /\ updating' = IF c.op = "submit" THEN null ELSE updating
        /\ submitting' = IF c.op = "review" THEN FALSE ELSE submitting
        /\ selectedPhotosMap' = IF c.op = "submit"
                                THEN [selectedPhotosMap EXCEPT ![c.item] = 0]
                                ELSE selectedPhotosMap
        /\ itemNotesMap' = IF c.op = "submit"
                           THEN [itemNotesMap EXCEPT ![c.item] = ""]
                           ELSE itemNotesMap
  /\ Idle(s)
  /\ UNCHANGED <<srvVars, role, page, checklist, roomVars, photoVars, dialogVars,
                 selectedRating>>

\* the catch block of the handler whose request failed
Catch(s) ==
  /\ calls[s].pc = "failed"
  /\ LET c == calls[s]
     IN /\ error' = IF c.op = "start" /\ c.pg \in {"detail", "today"}
                       /\ c.body.distance_tenths # -1
                    THEN [message |-> c.message, extra |-> TRUE,
                          distance |-> MathRound(c.body.distance_tenths),
                          allowed |-> c.body.allowed_meters]
                    ELSE Err(c.message)
        /\ loading' = IF c.op = "fetch" THEN FALSE ELSE loading
        /\ updating' = IF c.op = "submit" THEN null ELSE updating
        /\ submitting' = IF c.op = "review" THEN FALSE ELSE submitting
  /\ Idle(s)
  /\ UNCHANGED <<srvVars, role, page, checklist, roomVars, formVars, selectedRating>>

\* ------------------------------------------------- detail page: item forms
\* handlePhotoChange: n files are selected for item i
HandlePhotoChange(i, n) ==
  /\ FormShown(i)
  /\ selectedPhotosMap[i] + n <= MaxStaged
  /\ selectedPhotosMap' = [selectedPhotosMap EXCEPT ![i] = @ + n]
  /\ UNCHANGED <<srvVars, role, page, checklist, loading, error, updating, roomVars,
                 itemNotesMap, photoVars, dialogVars, reviewVars, calls>>

\* the remove button of a staged photo of item i
RemovePhoto(i) ==
  /\ FormShown(i)
  /\ selectedPhotosMap[i] > 0
  /\ selectedPhotosMap' = [selectedPhotosMap EXCEPT ![i] = @ - 1]
  /\ UNCHANGED <<srvVars, role, page, checklist, loading, error, updating, roomVars,
                 itemNotesMap, photoVars, dialogVars, reviewVars, calls>>

\* the notes textarea of item i
ChangeNotes(i, n) ==
  /\ FormShown(i)
  /\ itemNotesMap[i] # n
  /\ itemNotesMap' = [itemNotesMap EXCEPT ![i] = n]
  /\ UNCHANGED <<srvVars, role, page, checklist, loading, error, updating, roomVars,
                 selectedPhotosMap, photoVars, dialogVars, reviewVars, calls>>

\* handleSubmit without the test of item.completed
HandleSubmitNoLockCheck(i) ==
  /\ page = "detail"
  /\ HasItem(checklist.items, i)
  /\ FreeSlots # {}
  /\ updating' = i
  /\ error' = NoError
  /\ calls' = [calls EXCEPT ![NewSlot] =
                 [Call("submit", "update", "detail") EXCEPT
                    !.item = i,
                    !.notes = itemNotesMap[i],
                    !.photos = selectedPhotosMap[i]]]
  /\ UNCHANGED <<srvVars, role, page, checklist, loading, roomVars, formVars, reviewVars>>

\* handleSubmit(item), item being the page's item with id i
HandleSubmit(i) ==
  /\ page = "detail"
  /\ HasItem(checklist.items, i)
  /\ IF ItemOf(checklist.items, i).completed
     THEN /\ error' = Err("Cannot modify a completed task.")
          /\ UNCHANGED <<updating, calls>>
     ELSE /\ FreeSlots # {}
          /\ updating' = i
          /\ error' = NoError
          /\ calls' = [calls EXCEPT ![NewSlot] =
                         [Call("submit", "update", "detail") EXCEPT
                            !.item = i,
                            !.notes = itemNotesMap[i],
                            !.photos = selectedPhotosMap[i]]]
  /\ UNCHANGED <<srvVars, role, page, checklist, loading, roomVars, formVars, reviewVars>>

\* the Submit button of item i's form
ClickSubmit(i) ==
  /\ FormShown(i)
  /\ ~SubmitDisabled(i)
  /\ HandleSubmit(i)

\* ApplySubmit that resets the forms of all items
ApplySubmitClearsAll(s) ==
  /\ calls[s].op = "submit" /\ calls[s].pc = "got"
  /\ LET data == calls[s].data
         newCurrentId == CurrentRoom(data.rooms, data.items)
     IN /\ checklist' = data
        /\ currentRoomId' = newCurrentId
        /\ roomPhotoProgress' = ProgressOnSubmit(data.rooms, data.items, newCurrentId)
  /\ selectedPhotosMap' = [i \in ItemIds |-> 0]
  /\ itemNotesMap' = [i \in ItemIds |-> ""]
  /\ stagedFiles' = [i \in ItemIds |-> <<>>]
  /\ photoPreviewsMap' = [i \in ItemIds |-> <<>>]
  /\ updating' = null
  /\ Idle(s)
  /\ UNCHANGED <<srvVars, role, page, loading, error, reviewVars, readers, dialogVars>>

\* handleSubmit after its refresh: the new checklist is applied, the form cleared
ApplySubmit(s) ==
  /\ calls[s].op = "submit" /\ calls[s].pc = "got"
  /\ LET data == calls[s].data
         newCurrentId == CurrentRoom(data.rooms, data.items)
     IN /\ checklist' = data
        /\ currentRoomId' = newCurrentId
        /\ roomPhotoProgress' = ProgressOnSubmit(data.rooms, data.items, newCurrentId)
  /\ selectedPhotosMap' = [selectedPhotosMap EXCEPT ![calls[s].item] = 0]
  /\ itemNotesMap' = [itemNotesMap EXCEPT ![calls[s].item] = ""]
  /\ stagedFiles' = [stagedFiles EXCEPT ![calls[s].item] = <<>>]
  /\ photoPreviewsMap' = [photoPreviewsMap EXCEPT ![calls[s].item] = <<>>]
  /\ updating' = null
  /\ Idle(s)
  /\ UNCHANGED <<srvVars, role, page, loading, error, reviewVars, readers, dialogVars>>

\* ------------------------------------------------------------------ start
\* handleStartChecklist of the detail page and of the today-tasks page:
\* geolocation says whether navigator.geolocation exists
HandleStartChecklist(pg, geolocation) ==
  /\ IF ~geolocation
     THEN /\ error' = Err("Location permission is required to start this checklist.")
          /\ calls' = calls
     ELSE /\ FreeSlots # {}
          /\ error' = error
          /\ calls' = [calls EXCEPT ![NewSlot] = Call("start", "locating", pg)]
  /\ UNCHANGED <<srvVars, role, page, checklist, loading, updating, roomVars,
                 formVars, reviewVars>>

\* the Start Checklist button of the detail page
ClickStartDetail ==
  /\ DetailShown
  /\ canStart /\ role = "housekeeper"
  /\ \E geolocation \in BOOLEAN : HandleStartChecklist("detail", geolocation)

\* the Start Checklist button of the today-tasks page
ClickStartToday ==
  /\ page = "today" /\ ~loading /\ checklist # NoChecklist
  /\ checklist.status = "pending"
  /\ \E geolocation \in BOOLEAN : HandleStartChecklist("today", geolocation)

\* the Start button of the checklists list page: handleStartChecklist(checklistId)
ClickStartList ==
  /\ page = "list" /\ ~loading /\ checklist # NoChecklist
  /\ checklist.status = "pending"
  /\ FreeSlots # {}
  /\ calls' = [calls EXCEPT ![NewSlot] = Call("start", "start", "list")]
  /\ UNCHANGED <<srvVars, role, page, checklist, loading, error, updating, roomVars,
                 formVars, reviewVars>>

\* getCurrentPosition succeeds: startChecklist(checklist.id, coords) is sent
LocationFix(s) ==
  /\ calls[s].pc = "locating"
  /\ calls' = [calls EXCEPT ![s] = [@ EXCEPT !.pc = "start", !.coords = TRUE]]
  /\ UNCHANGED <<srvVars, role, page, checklist, loading, error, updating, roomVars,
                 formVars, reviewVars>>

\* getCurrentPosition fails (denied, unavailable, the 10 s timeout)
LocationFails(s) ==
  /\ calls[s].pc = "locating"
  /\ error' = IF calls[s].live
              THEN Err("Unable to get your location. Please enable location services and try again.")
              ELSE error
  /\ Idle(s)
  /\ UNCHANGED <<srvVars, role, page, checklist, loading, updating, roomVars,
                 formVars, reviewVars>>

\* detail page, after start or complete: setChecklist(response.data)
ApplyReload(s) ==
  /\ calls[s].op \in {"start", "complete"} /\ calls[s].pc = "got"
  /\ checklist' = calls[s].data
  /\ Idle(s)
  /\ UNCHANGED <<srvVars, role, page, loading, error, updating, roomVars,
                 formVars, reviewVars>>

\* list and today-tasks pages, after start or complete: the list is fetched again
Refetch(s) ==
  /\ calls[s].pc = "started"
  /\ loading' = TRUE
  /\ error' = NoError
  /\ calls' = [calls EXCEPT ![s] = Call("fetch", "get", @.pg)]
  /\ UNCHANGED <<srvVars, role, page, checklist, updating, roomVars, formVars, reviewVars>>

\* --------------------------------------------------------------- complete
\* the Complete Checklist button of the detail page: handleCompleteChecklist
ClickCompleteDetail ==
  /\ DetailShown
  /\ canComplete /\ role = "housekeeper"
  /\ FreeSlots # {}
  /\ calls' = [calls EXCEPT ![NewSlot] = Call("complete", "complete", "detail")]
  /\ UNCHANGED <<srvVars, role, page, checklist, loading, error, updating, roomVars,
                 formVars, reviewVars>>

\* the Complete button of the checklists list page
ClickCompleteList ==
  /\ page = "list" /\ ~loading /\ checklist # NoChecklist
  /\ checklist.status = "in_progress" /\ completedTasks = totalTasks
  /\ FreeSlots # {}
  /\ calls' = [calls EXCEPT ![NewSlot] = Call("complete", "complete", "list")]
  /\ UNCHANGED <<srvVars, role, page, checklist, loading, error, updating, roomVars,
                 formVars, reviewVars>>

\* ----------------------------------------------------------------- review
\* reviewSchema: rating is z.number().min(1).max(5)
reviewSchema(rating) == rating >= 1 /\ rating <= 5

\* ReviewShown without the test of the status
ReviewShownAnyStatus == page = "review" /\ ~loading /\ checklist # NoChecklist

\* the review page renders its form
ReviewShown == page = "review" /\ ~loading /\ checklist.status = "completed"

HandleRatingClick(r) ==
  /\ ReviewShown
  /\ selectedRating # r
  /\ selectedRating' = r
  /\ UNCHANGED <<srvVars, role, page, checklist, loading, error, updating, roomVars,
                 formVars, submitting, calls>>

\* SubmitReview with the button always enabled and no schema
SubmitReviewUnvalidated ==
  /\ ReviewShown
  /\ FreeSlots # {}
  /\ submitting' = TRUE
  /\ error' = NoError
  /\ calls' = [calls EXCEPT ![NewSlot] =
                 [Call("review", "review", "review") EXCEPT !.rating = selectedRating]]
  /\ UNCHANGED <<srvVars, role, page, checklist, loading, updating, roomVars,
                 formVars, selectedRating>>

\* SubmitReview sending the highest rating whatever was selected
SubmitReviewFixedRating ==
  /\ ReviewShown
  /\ ~submitting /\ selectedRating # 0
  /\ FreeSlots # {}
  /\ submitting' = TRUE
  /\ error' = NoError
  /\ calls' = [calls EXCEPT ![NewSlot] =
                 [Call("review", "review", "review") EXCEPT !.rating = 5]]
  /\ UNCHANGED <<srvVars, role, page, checklist, loading, updating, roomVars,
                 formVars, selectedRating>>

\* the form is submitted: handleSubmit(onSubmit) validates, then onSubmit
SubmitReview ==
  /\ ReviewShown
  /\ ~submitting /\ selectedRating # 0
  /\ reviewSchema(selectedRating)
  /\ FreeSlots # {}
  /\ submitting' = TRUE
  /\ error' = NoError
  /\ calls' = [calls EXCEPT ![NewSlot] =
                 [Call("review", "review", "review") EXCEPT !.rating = selectedRating]]
  /\ UNCHANGED <<srvVars, role, page, checklist, loading, updating, roomVars,
                 formVars, selectedRating>>

\* onSubmit after the request succeeded
ApplyReview(s) ==
  /\ calls[s].pc = "reviewed"
  /\ submitting' = FALSE
  /\ Idle(s)
  /\ UNCHANGED <<srvVars, role, page, checklist, loading, error, updating, roomVars,
                 formVars, selectedRating>>

\* ------------------------------------------------------------------- Next
Next ==
  \/ \E p \in Pages : Navigate(p)
  \/ \E r \in Roles, p \in Pages : SwitchUser(r, p)
  \/ \E s \in Slots : ServerGet(s)
  \/ \E s \in Slots : RequestFails(s)
  \/ \E s \in Slots : ServerUpdateItem(s)
  \/ \E s \in Slots : ServerStartAccepts(s)
  \/ \E s \in Slots : ServerStartRejects(s)
  \/ \E s \in Slots : ServerComplete(s)
  \/ \E s \in Slots : ServerReview(s)
  \/ \E s \in Slots : ApplyFetch(s)
  \/ \E s \in Slots : Catch(s)
  \/ \E i \in ItemIds, n \in 1..MaxStaged : HandlePhotoChange(i, n)
  \/ \E i \in ItemIds : RemovePhoto(i)
  \/ \E i \in ItemIds, n \in Notes : ChangeNotes(i, n)
  \/ \E i \in ItemIds : ClickSubmit(i)
  \/ \E s \in Slots : ApplySubmit(s)
  \/ ClickStartDetail
  \/ ClickStartToday
  \/ ClickStartList
  \/ \E s \in Slots : LocationFix(s)
  \/ \E s \in Slots : LocationFails(s)
  \/ \E s \in Slots : ApplyReload(s)
  \/ \E s \in Slots : Refetch(s)
  \/ ClickCompleteDetail
  \/ ClickCompleteList
  \/ \E r \in 1..5 : HandleRatingClick(r)
  \/ SubmitReview
  \/ \E s \in Slots : ApplyReview(s)

Spec == Init /\ [][Next]_vars

\* the detail page alone
NextRooms ==
  \/ \E s \in Slots : ServerGet(s)
  \/ \E s \in Slots : RequestFails(s)
  \/ \E s \in Slots : ServerUpdateItem(s)
  \/ \E s \in Slots : ApplyFetch(s)
  \/ \E s \in Slots : Catch(s)
  \/ \E i \in ItemIds, n \in 1..MaxStaged : HandlePhotoChange(i, n)
  \/ \E i \in ItemIds : RemovePhoto(i)
  \/ \E i \in ItemIds : ClickSubmit(i)
  \/ \E s \in Slots : ApplySubmit(s)

SpecRooms == InitRooms /\ [][NextRooms]_vars

\* the same, with handleSubmit also called on an item whose form is not shown
NextDirect ==
  \/ NextRooms
  \/ \E i \in ItemIds : HandleSubmit(i)

SpecDirect == InitDirect /\ [][NextDirect]_vars

\* a new checklist of the two-room property, its items in any rooms
InitReload ==
  /\ srvStatus = "pending"
  /\ \E roomOf \in [ItemIds -> RoomIds] : srvItems = NewItems(roomOf)
  /\ srvRating = 0
  /\ rooms = TwoRooms
  /\ InitPage

\* the detail page of the housekeeper from start to complete
NextReload ==
  \/ NextRooms
  \/ ClickStartDetail
  \/ \E s \in Slots : LocationFix(s)
  \/ \E s \in Slots : LocationFails(s)
  \/ \E s \in Slots : ServerStartAccepts(s)
  \/ \E s \in Slots : ServerStartRejects(s)
  \/ \E s \in Slots : ApplyReload(s)
  \/ ClickCompleteDetail
  \/ \E s \in Slots : ServerComplete(s)

SpecReload == InitReload /\ [][NextReload]_vars

\* ================================================================= claims
\* room k of the page's room list has an incomplete item
HasIncomplete(k) ==
  \E it \in Range(checklist.items) :
    it.room_id = checklist.rooms[k].id /\ ~it.completed

\* C1: once the detail page has loaded or reloaded the checklist, the current
\* room is the lowest-order room with an incomplete item, the first room when
\* no room has one, and null when the room list is empty; the items enter only
\* as a set, in whatever order they are listed.
C1_CurrentRoomIsLowestIncomplete ==
  DetailShown =>
    /\ checklist.rooms = <<>> => currentRoomId = null
    /\ (checklist.rooms # <<>> /\ \A k \in DOMAIN checklist.rooms : ~HasIncomplete(k))
         => currentRoomId = checklist.rooms[1].id
    /\ \A k \in DOMAIN checklist.rooms :
         (HasIncomplete(k) /\ \A j \in 1..(k - 1) : ~HasIncomplete(j))
           => currentRoomId = checklist.rooms[k].id

\* C1 witness: the page has loaded a checklist whose first room has a completed
\* item and no incomplete one; the second room, whose item is listed first, is
\* the current room
C1_Witness ==
  /\ DetailShown
  /\ Len(checklist.rooms) = 2
  /\ ~HasIncomplete(1) /\ HasIncomplete(2)
  /\ currentRoomId = checklist.rooms[2].id
  /\ checklist.items[1].room_id = checklist.rooms[2].id
  /\ \E k \in DOMAIN checklist.items :
       checklist.items[k].room_id = checklist.rooms[1].id /\ checklist.items[k].completed
  /\ selectedPhotosMap = [i \in ItemIds |-> 0]
  /\ updating = null /\ calls = [s \in Slots |-> IdleCall]

\* the pivots the page holds for the room of item i
ItemRoomPivots(i) ==
  {checklist.rooms[k] : k \in {j \in DOMAIN checklist.rooms :
                                 checklist.rooms[j].id = ItemOf(checklist.items, i).room_id}}

\* the photos the page's checklist holds for room id
PersistedPhotos(id) == RoomPhotos(checklist.items, id)

C3_NoRequirementNeverBlocked ==
  \A i \in ItemIds :
    FormShown(i) =>
      \A r \in ItemRoomPivots(i) : ~r.requires_photo => ~PhotoGateBlocks(i)

\* C4: every start request in flight carries a location fix.
C4_StartCarriesFix ==
  \A s \in Slots : calls[s].pc = "start" => calls[s].coords

\* a Start button is rendered
StartOffered ==
  \/ DetailShown /\ canStart /\ role = "housekeeper"
  \/ page = "today" /\ ~loading /\ checklist.status = "pending"

\* C5: when a start request that carried a fix is answered out of range, the
\* backend leaves the status pending, and the handler's catch block shows the
\* distance (to the nearest metre) and the allowed radius, leaves the page's
\* checklist as it is and leaves the Start button where it was offered.
C5_OutOfRangeKeepsPending ==
  [][\A s \in Slots :
       /\ (calls[s].pc = "start" /\ calls[s].coords /\ calls'[s].body # NoBody)
            => (srvStatus = "pending" /\ srvStatus' = "pending")
       /\ (calls[s].op = "start" /\ calls[s].coords /\ calls[s].body # NoBody
             /\ Catch(s))
            => /\ error'.extra
               /\ 10 * error'.distance - 5 <= calls[s].body.distance_tenths
               /\ calls[s].body.distance_tenths < 10 * error'.distance + 5
               /\ error'.allowed = calls[s].body.allowed_meters
               /\ checklist' = checklist
               /\ srvStatus' = srvStatus
               /\ (StartOffered => StartOffered')]_vars

\* C5 witness: scenario C on the detail page: 120 m away, 50 m allowed, the
\* checklist still pending and Start still offered
C5_Witness ==
  /\ error.extra /\ error.distance = 120 /\ error.allowed = 50
  /\ srvStatus = "pending"
  /\ DetailShown /\ checklist.status = "pending" /\ StartOffered

Rank(st) == CASE st = "pending" -> 1 [] st = "in_progress" -> 2
              [] st = "completed" -> 3 [] st = "reviewed" -> 4 [] OTHER -> 0

\* C6: the persisted status moves one state forward at a time, and the status
\* the page holds for the checklist never moves backward.
C6_StatusOnlyForward ==
  [][/\ srvStatus' # srvStatus => Rank(srvStatus') = Rank(srvStatus) + 1
     /\ (checklist # NoChecklist /\ checklist' # NoChecklist)
          => Rank(checklist'.status) >= Rank(checklist.status)]_vars

\* C7: an item that is completed is never changed again, neither as persisted
\* nor as the page holds it.
C7_CompletedItemLocked ==
  [][\A i \in ItemIds :
       /\ ItemOf(srvItems, i).completed => ItemOf(srvItems', i) = ItemOf(srvItems, i)
       /\ (HasItem(checklist.items, i) /\ HasItem(checklist'.items, i)
             /\ ItemOf(checklist.items, i).completed)
            => ItemOf(checklist'.items, i) = ItemOf(checklist.items, i)]_vars

\* the page holds item i as completed
Locked(i) == page = "detail" /\ HasItem(checklist.items, i)
             /\ ItemOf(checklist.items, i).completed

\* C8: handleSubmit called on an item the page holds as completed sets the
\* error 'Cannot modify a completed task.' and changes nothing else: no request,
\* no checklist, item, room or staged-input state.
C8_LockedSubmitIsNoOpError ==
  [][\A i \in ItemIds :
       (Locked(i) /\ HandleSubmit(i))
         => /\ error' = Err("Cannot modify a completed task.")
            /\ UNCHANGED <<srvVars, role, page, checklist, loading, updating,
                           roomVars, formVars, reviewVars, calls>>]_vars

\* C8 witness: the error is shown for a completed checklist whose items are locked
C8_Witness ==
  /\ error = Err("Cannot modify a completed task.")
  /\ checklist.status = "completed"
  /\ \A i \in ItemIds : Locked(i)
  /\ calls = [s \in Slots |-> IdleCall]

\* the update requests for item i that are in flight
UpdatesInFlight(i) ==
  {s \in Slots : calls[s].op = "submit" /\ calls[s].item = i /\ calls[s].pc = "update"}

\* C9: at most one update request for an item is in flight.
C9_OneUpdateInFlightPerItem ==
  \A i \in ItemIds : Cardinality(UpdatesInFlight(i)) <= 1

AllItemsCompleted == \A k \in DOMAIN srvItems : srvItems[k].completed

\* C10: no complete request is in flight while an item is incomplete; a complete
\* request is answered with success only for a checklist that is in_progress
\* with every item completed, and then the status becomes completed; the status
\* becomes completed in no other way.
C10_CompleteOnlyWhenAllDone ==
  /\ [](\A s \in Slots : calls[s].pc = "complete" => AllItemsCompleted)
  /\ [][/\ \A s \in Slots :
             (calls[s].pc = "complete" /\ calls'[s].pc \in {"get", "started"})
               => (srvStatus = "in_progress" /\ AllItemsCompleted
                   /\ srvStatus' = "completed")
        /\ (srvStatus' = "completed" /\ srvStatus # "completed")
             => (srvStatus = "in_progress" /\ AllItemsCompleted
                 /\ \E s \in Slots : calls[s].pc = "complete")]_vars

\* C10 witness: the checklist was completed from the detail page, which shows it
C10_Witness ==
  /\ srvStatus = "completed" /\ AllItemsCompleted
  /\ DetailShown /\ checklist.status = "completed"

\* handler s sends its updateChecklistItem request in this step
UpdateSent(s) == calls[s].pc # "update" /\ calls'[s].pc = "update"

\* C11: an update request is issued only while the checklist is in_progress.
C11_UpdateIssuedOnlyInProgress ==
  [][\A s \in Slots : UpdateSent(s) => srvStatus = "in_progress"]_vars

\* start has succeeded
Started == srvStatus # "pending"

\* complete has succeeded
CompleteSucceeded == srvStatus \in {"completed", "reviewed"}

\* C12: no item update is sent before start has succeeded, none is sent after
\* complete has succeeded, and no item is saved outside that interval.
C12_UpdatesBetweenStartAndComplete ==
  [][/\ \A s \in Slots : UpdateSent(s) => (Started /\ ~CompleteSucceeded)
     /\ srvItems' # srvItems => (Started /\ ~CompleteSucceeded)]_vars

\* C13: while the checklist is in_progress, the form of every incomplete item
\* is offered to the housekeeper, whichever room the item is in.
C13_AnyIncompleteItemSubmittable ==
  (DetailShown /\ canUpdate) =>
    \A i \in ItemIds :
      (HasItem(checklist.items, i) /\ ~ItemOf(checklist.items, i).completed)
        => FormShown(i)

NotYetCompleted == srvStatus \in {"pending", "in_progress"}

\* C14: while the checklist is pending or in_progress no review request is in
\* flight and its rating is unset; the status becomes reviewed only from
\* completed.
C14_ReviewOnlyWhenCompleted ==
  /\ [](NotYetCompleted =>
          (srvRating = 0 /\ \A s \in Slots : calls[s].op # "review"))
  /\ [][(srvStatus' = "reviewed" /\ srvStatus # "reviewed")
          => srvStatus = "completed"]_vars

\* C14 witness: an admin has the review page open on a checklist in progress,
\* and the page offers no review form
C14_Witness ==
  /\ role = "admin" /\ page = "review" /\ ~loading
  /\ checklist.status = "in_progress" /\ srvStatus = "in_progress"
  /\ ~ReviewShown
  /\ srvRating = 0

\* C15: a review page that has loaded a reviewed checklist offers the review
\* form, so that the review can be updated.
C15_ReviewedCanBeReviewedAgain ==
  (page = "review" /\ ~loading /\ checklist.status = "reviewed") => ReviewShown

\* handler s sends its reviewChecklist request in this step
ReviewSent(s) == calls[s].op # "review" /\ calls'[s].op = "review"

\* C16: every review request carries a rating in 1..5, and no review request
\* is sent while no rating in 1..5 is selected.
C16_ReviewCarriesValidRating ==
  /\ [](\A s \in Slots : calls[s].op = "review" => calls[s].rating \in 1..5)
  /\ [][selectedRating \notin 1..5 => \A s \in Slots : ~ReviewSent(s)]_vars

\* C16 witness: a review request with rating 4 is in flight
C16_Witness ==
  \E s \in Slots :
    /\ calls[s].pc = "review" /\ calls[s].rating = 4
    /\ submitting /\ selectedRating = 4

\* C17: complete, accepted for an in_progress checklist whose items are all
\* completed, sets the status to completed; a review request carries the
\* rating that was selected, and accepted for a completed checklist it sets
\* the status to reviewed and stores that rating.
C17_CompleteThenReviewStoresRating ==
  [][\A s \in Slots :
       /\ (srvStatus = "in_progress" /\ AllItemsCompleted /\ ServerComplete(s))
            => srvStatus' = "completed"
       /\ ReviewSent(s)
            => (calls'[s].rating = selectedRating /\ checklist.status = "completed")
       /\ (srvStatus = "completed" /\ ServerReview(s))
            => (srvStatus' = "reviewed" /\ srvRating' = calls[s].rating)]_vars

\* C17 witness: scenario D: every item completed, the checklist completed and
\* then reviewed with the rating 4 that the review page shows selected
C17_Witness ==
  /\ srvStatus = "reviewed" /\ srvRating = 4 /\ AllItemsCompleted
  /\ page = "review" /\ selectedRating = 4 /\ ~submitting
  /\ checklist.status = "completed"
  /\ calls = [s \in Slots |-> IdleCall]

\* C18: whenever the detail page shows a checklist, the current room is the
\* room sequencer applied to the rooms and items of that checklist.
C18_CurrentRoomFollowsChecklist ==
  DetailShown => currentRoomId = CurrentRoom(checklist.rooms, checklist.items)

\* C19: with an empty room list the current room is null, every item of the
\* checklist is presented and no form is blocked by the photo gate; with a
\* current room, exactly the items of that room are presented.
C19_NoRoomsFlatList ==
  DetailShown =>
    /\ checklist.rooms = <<>> =>
         /\ currentRoomId = null
         /\ \A it \in Range(checklist.items) : Displayed(it)
         /\ \A i \in ItemIds : ~PhotoGateBlocks(i)
    /\ currentRoomId # null =>
         \A it \in Range(checklist.items) :
           Displayed(it) <=> it.room_id = currentRoomId

\* C19 witness: no rooms, the items of two different rooms are both incomplete
\* and both forms are offered with the Submit button enabled
C19_Witness ==
  /\ DetailShown /\ checklist.rooms = <<>> /\ currentRoomId = null
  /\ \A i \in ItemIds : FormShown(i) /\ ~SubmitDisabled(i)
  /\ \E i, j \in ItemIds :
       ItemOf(checklist.items, i).room_id # ItemOf(checklist.items, j).room_id

\* the sum of the photos of the items at the indices K
RECURSIVE SumPhotos(_, _)
SumPhotos(items, K) ==
  IF K = {} THEN 0
  ELSE LET k == CHOOSE x \in K : TRUE
       IN items[k].photos + SumPhotos(items, K \ {k})

\* the photos of all the items of room id in the checklist the page holds
RoomPool(id) ==
  SumPhotos(checklist.items,
            {k \in DOMAIN checklist.items : checklist.items[k].room_id = id})

\* C20: for a form shown in a current room, the persisted count the gate uses
\* is the number of photos of all the items of the item's room, and the gate
\* blocks exactly when that count plus the staged photos is below the room's
\* required count.
C20_PhotoPoolPerRoom ==
  \A i \in ItemIds :
    (FormShown(i) /\ currentRoomId # null) =>
      LET pool == RoomPool(ItemOf(checklist.items, i).room_id)
      IN /\ roomPhotoProgress.total = pool
         /\ PhotoGateBlocks(i) <=>
              (roomPhotoProgress.required > 0
               /\ pool + selectedPhotosMap[i] < roomPhotoProgress.required)

\* C20 witness: the room requires a photo, the photo was uploaded with another
\* item of the room, and this item can be submitted with no photo staged
C20_Witness ==
  \E i, j \in ItemIds :
    /\ i # j /\ FormShown(i) /\ HasItem(checklist.items, j)
    /\ ItemOf(checklist.items, j).room_id = ItemOf(checklist.items, i).room_id
    /\ ItemOf(checklist.items, j).completed /\ ItemOf(checklist.items, j).photos >= 1
    /\ ItemOf(checklist.items, i).photos = 0
    /\ selectedPhotosMap[i] = 0
    /\ roomPhotoProgress.required >= 1
    /\ ~PhotoGateBlocks(i)

\* ---------------------------------------------------- room requirements
MaxDigits == 2        \* characters typed or pasted into the dialog's count input

maxLength == 2        \* maxLength of the card's count input

Digits == 0..9

\* the digit strings of at most n characters
DigitStrings(n) == UNION {[1..l -> Digits] : l \in 0..n}

\* parseInt(raw, 10) of a digit string that is not empty
RECURSIVE parseInt(_)
parseInt(raw) ==
  IF Len(raw) = 0 THEN 0
  ELSE 10 * parseInt(SubSeq(raw, 1, Len(raw) - 1)) + raw[Len(raw)]

MathMax(a, b) == IF a >= b THEN a ELSE b

MathMin(a, b) == IF a <= b THEN a ELSE b

\* the card's count onChange: the count it sends (0 for an empty input)
CardCount(raw) ==
  IF raw = <<>> THEN 0 ELSE MathMax(0, MathMin(10, parseInt(raw)))

\* the dialog's count onChange: the count it keeps (0: undefined)
DialogCount(raw) ==
  IF raw = <<>> THEN 0 ELSE MathMax(1, MathMin(10, parseInt(raw)))

\* PUT /properties/{property}/rooms/{id}/requirements, as the backend stores it
ServerUpdateRequirements(id, requires_photo, photos_required_count) ==
  rooms' = [k \in DOMAIN rooms |->
              IF rooms[k].id = id
              THEN RoomOf(id, [requires_photo |-> requires_photo,
                               photos_required_count |-> photos_required_count])
              ELSE rooms[k]]

\* everything but the room list and the room dialog
pageVars == <<srvStatus, srvItems, srvRating, role, page, checklist, loading, error,
              updating, roomVars, selectedPhotosMap, itemNotesMap, photoVars,
              reviewVars, calls>>

\* the card's Switch of the room at position k
CardSwitch(k, checked) ==
  /\ k \in DOMAIN rooms
  /\ ServerUpdateRequirements(rooms[k].id, checked, rooms[k].photos_required_count)
  /\ UNCHANGED <<pageVars, dialogVars>>

\* the card's count input of the room at position k receives raw
CardCountChange(k, raw) ==
  /\ k \in DOMAIN rooms
  /\ rooms[k].requires_photo
  /\ ServerUpdateRequirements(rooms[k].id, rooms[k].requires_photo, CardCount(raw))
  /\ UNCHANGED <<pageVars, dialogVars>>

\* the dialog opens in edit mode on the room at position k
DialogOpen(k) ==
  /\ editing = 0
  /\ k \in DOMAIN rooms
  /\ editing' = rooms[k].id
  /\ requiresPhoto' = rooms[k].requires_photo
  /\ photosRequiredCount' = RequiredOf(rooms[k])
  /\ UNCHANGED <<pageVars, rooms>>

\* the dialog's Switch
DialogSwitch(checked) ==
  /\ editing # 0
  /\ requiresPhoto' = checked
  /\ photosRequiredCount' = IF checked THEN photosRequiredCount ELSE 0
  /\ UNCHANGED <<pageVars, rooms, editing>>

\* the dialog's count input receives raw
DialogCountChange(raw) ==
  /\ editing # 0
  /\ requiresPhoto
  /\ photosRequiredCount' = DialogCount(raw)
  /\ UNCHANGED <<pageVars, rooms, editing, requiresPhoto>>

\* the dialog's handleSubmit in edit mode: the requirements are sent, the dialog closes
DialogSubmit ==
  /\ editing # 0
  /\ ServerUpdateRequirements(editing, requiresPhoto, photosRequiredCount)
  /\ editing' = 0
  /\ UNCHANGED <<pageVars, requiresPhoto, photosRequiredCount>>

NextRequirements ==
  \/ \E k \in RoomIds, checked \in BOOLEAN : CardSwitch(k, checked)
  \/ \E k \in RoomIds, raw \in DigitStrings(maxLength) : CardCountChange(k, raw)
  \/ \E k \in RoomIds : DialogOpen(k)
  \/ \E checked \in BOOLEAN : DialogSwitch(checked)
  \/ \E raw \in DigitStrings(MaxDigits) : DialogCountChange(raw)
  \/ DialogSubmit

\* a property with one room, whose requirements an admin is about to edit
InitRequirements ==
  /\ srvStatus = "pending"
  /\ srvItems = NewItems([i \in ItemIds |-> 1])
  /\ srvRating = 0
  /\ rooms = <<TwoRooms[1]>>
  /\ InitPage

SpecRequirements == InitRequirements /\ [][NextRequirements]_vars

\* what a typed string must leave as the count: none for an empty string or
\* a 0, otherwise a count in 1..10
ClampedOrNone(raw, count) ==
  IF raw = <<>> \/ parseInt(raw) = 0 THEN count = 0 ELSE count >= 1 /\ count <= 10

\* C21: whatever digit string is typed into the card's or the dialog's count
\* input, the count stored and sent lies in 1..10, and an empty input or a 0
\* leaves no requirement
C21_CountClampedOrNone ==
  [][/\ \A k \in RoomIds, raw \in DigitStrings(maxLength) :
          CardCountChange(k, raw) => ClampedOrNone(raw, rooms'[k].photos_required_count)
     /\ \A raw \in DigitStrings(MaxDigits) :
          DialogCountChange(raw) => ClampedOrNone(raw, photosRequiredCount')
     /\ \A k \in DOMAIN rooms :
          (DialogSubmit /\ rooms[k].id = editing)
            => rooms'[k].photos_required_count = photosRequiredCount]_vars

\* the catch block of a start that the geofence authority answered out of range
CatchOutOfRange(s) ==
  /\ Catch(s)
  /\ calls[s].op = "start"
  /\ calls[s].pg \in {"detail", "today"}
  /\ calls[s].body \in OutOfRange

\* C22 as stated: the two numbers shown are the distance_meters and the
\* allowed_meters the geofence authority returned, unchanged
C22_NumbersVerbatim ==
  [][\A s \in Slots :
       CatchOutOfRange(s)
         => /\ error'.extra
            /\ 10 * error'.distance = calls[s].body.distance_tenths
            /\ error'.allowed = calls[s].body.allowed_meters]_vars

\* C22 amended: the allowed radius is shown unchanged and the distance is
\* shown as the whole number of metres nearest to the returned distance
C22_DistanceRoundedAllowedVerbatim ==
  [][\A s \in Slots :
       CatchOutOfRange(s)
         => /\ error'.extra
            /\ 10 * error'.distance - calls[s].body.distance_tenths \in -4..5
            /\ error'.allowed = calls[s].body.allowed_meters]_vars

\* C22 witness: the today-tasks page shows 50 m for a returned 50.4 m
C22_Witness ==
  /\ page = "today"
  /\ error.extra /\ error.distance = 50 /\ error.allowed = 50
  /\ srvStatus = "pending"

\* the detail page of the housekeeper from start to complete, notes included
NextAttempts ==
  \/ NextReload
  \/ \E i \in ItemIds, n \in Notes : ChangeNotes(i, n)

SpecAttempts == InitReload /\ [][NextAttempts]_vars

\* a step in which the handler of slot s gives up its transition: the
\* location could not be read, or the catch block runs
GivesUp(s) ==
  /\ calls[s].op \in {"start", "submit", "complete"}
  /\ Catch(s) \/ LocationFails(s)

TransitionRequests == {"start", "update", "complete", "review"}

\* the handler of slot s sends a transition request in this step
Sends(s) == calls'[s].pc \in TransitionRequests /\ calls'[s].pc # calls[s].pc

\* a step in which the user activates a control that starts a transition
UserActs ==
  \/ \E i \in ItemIds : ClickSubmit(i)
  \/ ClickStartDetail
  \/ ClickStartToday
  \/ ClickStartList
  \/ ClickCompleteDetail
  \/ ClickCompleteList
  \/ SubmitReview

\* C24: a transition request is sent only by a handler the user has just
\* invoked (or by the start handler once the location it asked for is read),
\* one request per step; a handler whose request has failed or succeeded
\* never sends the request again
C24_NoAutomaticRetry ==
  [][\A s \in Slots :
       Sends(s)
         => /\ \A t \in Slots \ {s} : ~Sends(t)
            /\ \/ calls[s].pc = "idle" /\ UserActs
               \/ calls[s].pc = "locating" /\ calls[s].op = "start" /\ LocationFix(s)]_vars

\* C24 witness: a complete request has failed, the page shows the error, and
\* no request is in flight although complete is still legal
C24_Witness ==
  /\ DetailShown /\ canComplete
  /\ error.message = "request failed"
  /\ \A s \in Slots : calls[s] = IdleCall
  /\ srvStatus = "in_progress" /\ AllItemsCompleted
  /\ checklist.items = srvItems

\* ------------------------------------- requirements changed under a checklist
\* another session (the card, the dialog) stores pivot p for the room at position k
RequirementsChange(k, p) ==
  /\ k \in DOMAIN rooms
  /\ p # [requires_photo |-> rooms[k].requires_photo,
          photos_required_count |-> rooms[k].photos_required_count]
  /\ ServerUpdateRequirements(rooms[k].id, p.requires_photo, p.photos_required_count)
  /\ UNCHANGED <<pageVars, dialogVars>>

\* a checklist in progress of the two-room property, its items in the first
\* room, nothing submitted yet
InitFresh ==
  /\ srvStatus = "in_progress"
  /\ srvItems = NewItems([i \in ItemIds |-> 1])
  /\ srvRating = 0
  /\ rooms = TwoRooms
  /\ InitPage

NextFresh ==
  \/ \E s \in Slots : ServerGet(s)
  \/ \E s \in Slots : ServerUpdateItem(s)
  \/ \E s \in Slots : ApplyFetch(s)
  \/ \E s \in Slots : Catch(s)
  \/ \E i \in ItemIds, n \in 1..MaxStaged : HandlePhotoChange(i, n)
  \/ \E i \in ItemIds : ClickSubmit(i)
  \/ \E s \in Slots : ApplySubmit(s)
  \/ \E p \in Pivots : RequirementsChange(1, p)

\* the detail page while the property's requirements are being edited
SpecFresh == InitFresh /\ [][NextFresh]_vars

\* the photo part of the Submit condition with the threshold the current
\* room has now
FreshGateBlocks(i) ==
  LET required == RequiredOf(PivotOf(currentRoomId))
  IN /\ required > 0
     /\ roomPhotoProgress.total + selectedPhotosMap[i] < required

\* C25: whenever the form of an incomplete item is shown, its gate decides
\* with the threshold its room has at that time, also after the room's
\* photos_required_count was changed
C25_GateUsesCurrentThreshold ==
  \A i \in ItemIds :
    (FormShown(i) /\ currentRoomId # null /\ srvStatus = "in_progress")
      => (PhotoGateBlocks(i) <=> FreshGateBlocks(i))

\* the page has the backend's checklist and no handler is running
Settled ==
  /\ DetailShown
  /\ \A s \in Slots : calls[s] = IdleCall
  /\ checklist = Snapshot

\* C26: a housekeeper's settled page of a checklist in progress that still has
\* an incomplete item shows the submit form of an incomplete item, so the
\* operator can always go on until complete is enabled
C26_IncompleteItemHasForm ==
  (Settled /\ canUpdate /\ ~canComplete)
    => \E i \in ItemIds : FormShown(i)

\* ------------------------------------------- staged files and their previews
\* the image files the operator can pick; a file is picked once
Files == {"a", "b"}

\* the files that are staged or being read
FilesInUse ==
  UNION {Range(stagedFiles[i]) : i \in ItemIds} \cup {r.file : r \in readers}
  \cup UNION {Range(photoPreviewsMap[i]) : i \in ItemIds}

\* Array.from(e.target.files): the selections that can be made of the files in free
Selections(free) ==
  {fs \in UNION {[1..l -> free] : l \in 1..Cardinality(free)} :
     \A j, k \in DOMAIN fs : j # k => fs[j] # fs[k]}

\* q.filter((_, i) => i !== index), index counted from 1
RemoveAt(q, index) ==
  IF index \in 1..Len(q)
  THEN SubSeq(q, 1, index - 1) \o SubSeq(q, index + 1, Len(q))
  ELSE q

\* handlePhotoChange(e, i): the files are staged and one FileReader per file
\* is started
SelectFiles(i, files) ==
  /\ FormShown(i)
  /\ Range(files) \cap FilesInUse = {}
  /\ stagedFiles' = [stagedFiles EXCEPT ![i] = @ \o files]
  /\ selectedPhotosMap' = [selectedPhotosMap EXCEPT ![i] = @ + Len(files)]
  /\ readers' = readers \cup {[item |-> i, file |-> files[k]] : k \in DOMAIN files}
  /\ UNCHANGED <<srvVars, role, page, checklist, loading, error, updating, roomVars,
                 itemNotesMap, photoPreviewsMap, dialogVars, reviewVars, calls>>

\* reader.onloadend of one of the readers: its preview is appended
ReaderLoads(r) ==
  /\ r \in readers
  /\ photoPreviewsMap' = [photoPreviewsMap EXCEPT ![r.item] = Append(@, r.file)]
  /\ readers' = readers \ {r}
  /\ UNCHANGED <<srvVars, role, page, checklist, loading, error, updating, roomVars,
                 selectedPhotosMap, itemNotesMap, stagedFiles, dialogVars, reviewVars,
                 calls>>

\* the remove button of the preview shown at index of item i
RemovePhotoAt(i, index) ==
  /\ FormShown(i)
  /\ index \in 1..Len(photoPreviewsMap[i])
  /\ stagedFiles' = [stagedFiles EXCEPT ![i] = RemoveAt(@, index)]
  /\ selectedPhotosMap' = [selectedPhotosMap EXCEPT ![i] = Len(RemoveAt(stagedFiles[i], index))]
  /\ photoPreviewsMap' = [photoPreviewsMap EXCEPT ![i] = RemoveAt(@, index)]
  /\ UNCHANGED <<srvVars, role, page, checklist, loading, error, updating, roomVars,
                 itemNotesMap, readers, dialogVars, reviewVars, calls>>

NextPhotos ==
  \/ \E s \in Slots : ServerGet(s)
  \/ \E s \in Slots : ServerUpdateItem(s)
  \/ \E s \in Slots : ApplyFetch(s)
  \/ \E s \in Slots : Catch(s)
  \/ \E i \in ItemIds, files \in Selections(Files) : SelectFiles(i, files)
  \/ \E r \in [item : ItemIds, file : Files] : ReaderLoads(r)
  \/ \E i \in ItemIds, index \in 1..Cardinality(Files) : RemovePhotoAt(i, index)
  \/ \E i \in ItemIds, n \in Notes : ChangeNotes(i, n)
  \/ \E i \in ItemIds : ClickSubmit(i)
  \/ \E s \in Slots : ApplySubmit(s)

\* the detail page with the staged files and their previews followed one by one
SpecPhotos == InitFresh /\ [][NextPhotos]_vars

\* no FileReader of item i is still reading
ReadersDone(i) == \A r \in readers : r.item # i

\* C27: once the readers of an item have finished, its previews are its
\* staged files, in the same order: same length, preview k made from file k,
\* and no preview where no file is staged
C27_PreviewsAlignedWithFiles ==
  \A i \in ItemIds : ReadersDone(i) => photoPreviewsMap[i] = stagedFiles[i]

\* the step is the successful end of the submission of item x
Submitted(s, x) == ApplySubmit(s) /\ calls[s].item = x

\* C30: the successful submission of item x empties x's staged photos,
\* previews and notes and leaves those of every other item as they were
C30_SubmitClearsOnlyItsOwnForm ==
  [][\A s \in Slots, x \in ItemIds :
       Submitted(s, x)
         => /\ selectedPhotosMap'[x] = 0 /\ stagedFiles'[x] = <<>>
            /\ photoPreviewsMap'[x] = <<>> /\ itemNotesMap'[x] = ""
            /\ \A i \in ItemIds \ {x} :
                 /\ selectedPhotosMap'[i] = selectedPhotosMap[i]
                 /\ stagedFiles'[i] = stagedFiles[i]
                 /\ photoPreviewsMap'[i] = photoPreviewsMap[i]
                 /\ itemNotesMap'[i] = itemNotesMap[i]]_vars

\* C30 witness: item 1 was submitted and its form is empty, while item 2
\* still has its staged file, the preview of that file and its notes
C30_Witness ==
  /\ DetailShown
  /\ ItemOf(checklist.items, 1).completed
  /\ selectedPhotosMap[1] = 0 /\ stagedFiles[1] = <<>> /\ photoPreviewsMap[1] = <<>>
  /\ itemNotesMap[1] = ""
  /\ FormShown(2)
  /\ selectedPhotosMap[2] = 1 /\ stagedFiles[2] = <<"b">> /\ photoPreviewsMap[2] = <<"b">>
  /\ itemNotesMap[2] = "n1"
  /\ ItemOf(srvItems, 1).photos = 1

\* C28: a start, item submission or complete request is sent only for a
\* housekeeper, a review request only for an admin or property owner
C28_TransitionsGatedByRole ==
  \A s \in Slots :
    calls[s].live
      => /\ calls[s].op \in {"start", "submit", "complete"} => role = "housekeeper"
         /\ calls[s].op = "review" => role # "housekeeper"

\* ------------------------------------------- the Complete button, view by view
\* the detail page renders Complete Checklist
CompleteOfferedDetail == DetailShown /\ canComplete /\ role = "housekeeper"

\* the list page renders Complete
CompleteOfferedList ==
  /\ page = "list" /\ ~loading /\ checklist # NoChecklist
  /\ checklist.status = "in_progress" /\ completedTasks = totalTasks

\* the today-tasks page renders Complete Checklist
CompleteOfferedToday ==
  /\ page = "today" /\ ~loading /\ checklist # NoChecklist
  /\ checklist.status = "in_progress" /\ completedTasks = totalTasks /\ totalTasks > 0

\* the Complete Checklist button of the today-tasks page: it has no onClick
ClickCompleteToday ==
  /\ CompleteOfferedToday
  /\ UNCHANGED vars

\* the step hands a complete request to a handler that was idle
IssuesComplete ==
  \E s \in Slots : calls[s] = IdleCall /\ calls'[s].pc = "complete"

\* C29: in each of the three views, whenever Complete is offered (and a
\* handler is free) activating it issues the complete request
C29_CompleteIssuesRequestInEveryView ==
  /\ (CompleteOfferedDetail /\ FreeSlots # {})
       => ENABLED (ClickCompleteDetail /\ IssuesComplete)
  /\ (CompleteOfferedList /\ FreeSlots # {})
       => ENABLED (ClickCompleteList /\ IssuesComplete)
  /\ (CompleteOfferedToday /\ FreeSlots # {})
       => ENABLED (ClickCompleteToday /\ IssuesComplete)

====
